---------------------------- MODULE Spec2Model ----------------------------
(***************************************************************************)
(* A model of mkbook.py, the opening-book builder of chessdb: the          *)
(* per-game scratch table, the global moves table, merge, the book         *)
(* encoder output_book, the binary record packer make_entry and the move   *)
(* codec encode_move.                                                      *)
(***************************************************************************)
EXTENDS Integers, Sequences, FiniteSets, Bags, TLC

VARIABLES
    args,           \* the parsed command line (depth, max_variations, ranked, no_blitz, ext)
    pc,             \* where make_opening_book stands: crawl, merge, done, interrupted
    __moves_table,  \* the global table, a dict kept in insertion order
    table,          \* meta['table'] of the game being merged (the scratch table)
    cursor,         \* how many moves of the scratch table merge has handed to add_move
    _ranked,        \* _ranked: name -> decision, the names is_ranked has resolved
    out,            \* what output_book has written to args.out, write by write
    merged,         \* history: the observation logs of the games merge has finished (a bag)
    current,        \* history: the observation log of the game being merged
    games,          \* history: the games the reader has yielded (a bag)
    count,          \* count[0]: the games merged so far
    codec,          \* the move codec's test bench (test_encode_move)
    packer,         \* the record packer's test bench (test_large_weight)
    ranker,         \* the player filter's test bench (test_ranked): the last call
    rerun           \* the file a second run of output_book writes

vars == <<args, pc, __moves_table, table, cursor, _ranked, out,
          merged, current, games, count, codec, packer, ranker, rerun>>

bookVars == <<args, pc, __moves_table, table, cursor, _ranked, out,
              merged, current, games, count>>

-----------------------------------------------------------------------------
(* Bounds of the model *)

\* The number of games the reader yields in one run.
MaxGames == 3

\* The number of different names is_ranked is asked about in one test run.
MaxAsked == 3

-----------------------------------------------------------------------------
(* Small helpers *)

Max(a, b) == IF a >= b THEN a ELSE b

Min(a, b) == IF a <= b THEN a ELSE b

Range(s) == {s[i] : i \in 1..Len(s)}

RECURSIVE Pow2(_)
Pow2(n) == IF n = 0 THEN 1 ELSE 2 * Pow2(n - 1)

\* x & y and x | y of Python on non-negative integers, bit by bit.
RECURSIVE BitAnd(_, _)
BitAnd(x, y) ==
    IF x = 0 \/ y = 0 THEN 0
    ELSE (IF x % 2 = 1 /\ y % 2 = 1 THEN 1 ELSE 0) + 2 * BitAnd(x \div 2, y \div 2)

RECURSIVE BitOr(_, _)
BitOr(x, y) ==
    IF x = 0 THEN y
    ELSE IF y = 0 THEN x
    ELSE (IF x % 2 = 1 \/ y % 2 = 1 THEN 1 ELSE 0) + 2 * BitOr(x \div 2, y \div 2)

ShiftLeft(x, n) == x * Pow2(n)

ShiftRight(x, n) == x \div Pow2(n)

-----------------------------------------------------------------------------
(* Text: str.lower, the in operator on strings, ','.join *)

lower_char(c) ==
    CASE c = "A" -> "a" [] c = "B" -> "b" [] c = "C" -> "c" [] c = "D" -> "d"
      [] c = "E" -> "e" [] c = "F" -> "f" [] c = "G" -> "g" [] c = "H" -> "h"
      [] c = "I" -> "i" [] c = "J" -> "j" [] c = "K" -> "k" [] c = "L" -> "l"
      [] c = "M" -> "m" [] c = "N" -> "n" [] c = "O" -> "o" [] c = "P" -> "p"
      [] c = "Q" -> "q" [] c = "R" -> "r" [] c = "S" -> "s" [] c = "T" -> "t"
      [] c = "U" -> "u" [] c = "V" -> "v" [] c = "W" -> "w" [] c = "X" -> "x"
      [] c = "Y" -> "y" [] c = "Z" -> "z"
      [] OTHER -> c

RECURSIVE lower(_)
lower(s) ==
    IF Len(s) = 0 THEN ""
    ELSE lower_char(SubSeq(s, 1, 1)) \o lower(SubSeq(s, 2, Len(s)))

contains(s, sub) ==
    \E i \in 1..(Len(s) - Len(sub) + 1) : SubSeq(s, i, i + Len(sub) - 1) = sub

startswith(s, prefix) ==
    Len(s) >= Len(prefix) /\ SubSeq(s, 1, Len(prefix)) = prefix

RECURSIVE join(_, _)
join(sep, parts) ==
    IF Len(parts) = 0 THEN ""
    ELSE IF Len(parts) = 1 THEN parts[1]
    ELSE parts[1] \o sep \o join(sep, Tail(parts))

reversed(s) == [i \in 1..Len(s) |-> s[Len(s) + 1 - i]]

\* str.strip, of spaces.
RECURSIVE strip(_)
strip(s) ==
    IF Len(s) > 0 /\ SubSeq(s, 1, 1) = " " THEN strip(SubSeq(s, 2, Len(s)))
    ELSE IF Len(s) > 0 /\ SubSeq(s, Len(s), Len(s)) = " "
    THEN strip(SubSeq(s, 1, Len(s) - 1))
    ELSE s

-----------------------------------------------------------------------------
(* The move codec *)

\* chess.Move: squares 0..63 (a1 = 0, h8 = 63); promotion is None (0 here) or a
\* piece type, KNIGHT = 2 .. QUEEN = 5.
Move(from_square, to_square, promotion) ==
    [from_square |-> from_square, to_square |-> to_square, promotion |-> promotion]

None == 0

Promotions == {None, 2, 3, 4, 5}

\* encode_move with the promotion's piece type stored as it is, not minus one.
encode_move_no_decrement(move) ==
    LET promotion == IF move.promotion # None
                     THEN ShiftLeft(BitAnd(move.promotion, 7), 12)
                     ELSE 0
    IN  BitOr(BitOr(move.to_square, ShiftLeft(move.from_square, 6)), promotion)

encode_move(move) ==
    LET promotion == IF move.promotion # None
                     THEN ShiftLeft(BitAnd(move.promotion - 1, 7), 12)
                     ELSE 0
    IN  BitOr(BitOr(move.to_square, ShiftLeft(move.from_square, 6)), promotion)

\* The decoder test_encode_move checks encode_move against.
decode_move(raw_move) ==
    LET to_square      == BitAnd(raw_move, 63)
        from_square    == BitAnd(ShiftRight(raw_move, 6), 63)
        promotion_part == BitAnd(ShiftRight(raw_move, 12), 7)
        promotion      == IF promotion_part # 0 THEN promotion_part + 1 ELSE None
    IN  Move(from_square, to_square, promotion)

\* chess.Move.uci: the move's canonical text, e.g. "e2e4", "e7e8q".
square_name(sq) ==
    LET files == <<"a", "b", "c", "d", "e", "f", "g", "h">>
        ranks == <<"1", "2", "3", "4", "5", "6", "7", "8">>
    IN  files[(sq % 8) + 1] \o ranks[(sq \div 8) + 1]

piece_symbol(piece) == <<"p", "n", "b", "r", "q", "k">>[piece]

uci(move) ==
    square_name(move.from_square) \o square_name(move.to_square)
        \o (IF move.promotion # None THEN piece_symbol(move.promotion) ELSE "")

-----------------------------------------------------------------------------
(* The record packer *)

\* A failed assert.
AssertionError == [raised |-> "AssertionError"]

\* ENTRY_STRUCT.pack of '>QHHI': the fields as numbers, each within its width.
make_entry(key, move, weight, learn) ==
    IF ~(weight > 0) THEN AssertionError
    ELSE IF ~(learn >= 0) THEN AssertionError
    ELSE [key |-> key, move |-> encode_move(move),
          weight |-> weight % 65535, learn |-> learn % 65535]

-----------------------------------------------------------------------------
(* Boards and position keys *)

\* A chess.Board: the moves pushed so far and where the pieces stand. The
\* board carries the pieces the corpus moves: the king's knights and the
\* king's pawns.
starting_pieces == (6 :> "N") @@ (12 :> "P") @@ (52 :> "p") @@ (62 :> "n")

starting_board == [move_stack |-> <<>>, pieces |-> starting_pieces]

\* board.push(move)
push(board, move) ==
    [move_stack |-> Append(board.move_stack, move),
     pieces |-> [sq \in (DOMAIN board.pieces \ {move.from_square}) \cup {move.to_square} |->
                    IF sq = move.to_square THEN board.pieces[move.from_square]
                    ELSE board.pieces[sq]]]

WHITE == "white"

BLACK == "black"

\* board.turn: white moves at even plies.
turn(board) == IF Len(board.move_stack) % 2 = 0 THEN WHITE ELSE BLACK

\* chess.polyglot.zobrist_hash: a hash of the piece placement and the side to
\* move, the same for a position however it was reached.
piece_code(piece) ==
    CASE piece = "N" -> 1 [] piece = "P" -> 2 [] piece = "n" -> 3 [] piece = "p" -> 4

RECURSIVE zobrist_pieces(_, _)
zobrist_pieces(pieces, squares) ==
    IF squares = {} THEN 0
    ELSE LET sq == CHOOSE x \in squares : TRUE
             z  == piece_code(pieces[sq]) * 64 + sq
         IN  ((z * z) % 97) + zobrist_pieces(pieces, squares \ {sq})

zobrist_hash(board) ==
    (zobrist_pieces(board.pieces, DOMAIN board.pieces)
        + (IF turn(board) = BLACK THEN 29 ELSE 0)) % 97

\* board.epd(): the position as text, square by square, then the side to move.
RECURSIVE epd_squares(_, _)
epd_squares(pieces, squares) ==
    IF squares = {} THEN ""
    ELSE LET sq == CHOOSE x \in squares : \A y \in squares : x <= y
         IN  pieces[sq] \o square_name(sq) \o epd_squares(pieces, squares \ {sq})

epd(board) ==
    epd_squares(board.pieces, DOMAIN board.pieces)
        \o (IF turn(board) = WHITE THEN "w" ELSE "b")

is_csv_output(a) == a.ext \in {".csv", ".txt"}

\* key: the Zobrist hash, rebound to board.epd() when the output is CSV.
key(board) == IF is_csv_output(args) THEN epd(board) ELSE zobrist_hash(board)

\* The order sorted() puts keys in: numbers by value, text by code point.
ord(c) ==
    LET alphabet == "12345678NPabcdefghnpw"
    IN  CHOOSE i \in 1..Len(alphabet) : SubSeq(alphabet, i, i) = c

RECURSIVE str_less(_, _)
str_less(a, b) ==
    IF Len(b) = 0 THEN FALSE
    ELSE IF Len(a) = 0 THEN TRUE
    ELSE IF SubSeq(a, 1, 1) # SubSeq(b, 1, 1)
         THEN ord(SubSeq(a, 1, 1)) < ord(SubSeq(b, 1, 1))
    ELSE str_less(SubSeq(a, 2, Len(a)), SubSeq(b, 2, Len(b)))

key_less(a, b) == IF is_csv_output(args) THEN str_less(a, b) ELSE a < b

-----------------------------------------------------------------------------
(* The position statistics tables *)

MoveStats(win, loss, depth) == [win |-> win, loss |-> loss, depth |-> depth]

\* move.stats = ...: the move with its statistics attached.
with_stats(move, stats) ==
    [from_square |-> move.from_square, to_square |-> move.to_square,
     promotion |-> move.promotion, stats |-> stats]

\* add_move without the search for the move's text.
add_move_append(moves_list, new_move) == Append(moves_list, new_move)

\* add_move that keeps the depth of the entry it finds.
add_move_keepdepth(moves_list, new_move) ==
    IF \E i \in 1..Len(moves_list) : uci(moves_list[i]) = uci(new_move)
    THEN LET i == CHOOSE i \in 1..Len(moves_list) :
                      /\ uci(moves_list[i]) = uci(new_move)
                      /\ \A j \in 1..(i - 1) : uci(moves_list[j]) # uci(new_move)
         IN  [moves_list EXCEPT ![i].stats =
                 MoveStats(@.win + new_move.stats.win,
                           @.loss + new_move.stats.loss,
                           @.depth)]
    ELSE Append(moves_list, new_move)


add_move(moves_list, new_move) ==
    IF \E i \in 1..Len(moves_list) : uci(moves_list[i]) = uci(new_move)
    THEN LET i == CHOOSE i \in 1..Len(moves_list) :
                      /\ uci(moves_list[i]) = uci(new_move)
                      /\ \A j \in 1..(i - 1) : uci(moves_list[j]) # uci(new_move)
         IN  [moves_list EXCEPT ![i].stats =
                 MoveStats(@.win + new_move.stats.win,
                           @.loss + new_move.stats.loss,
                           Min(@.depth, new_move.stats.depth))]
    ELSE Append(moves_list, new_move)

\* A defaultdict(list) in insertion order: a sequence of [key, moves].
has_key(tbl, k) == \E i \in 1..Len(tbl) : tbl[i].key = k

index_of(tbl, k) == CHOOSE i \in 1..Len(tbl) : tbl[i].key = k

\* tbl[k] of a defaultdict: a missing key is inserted with an empty list.
getitem(tbl, k) == IF has_key(tbl, k) THEN tbl ELSE Append(tbl, [key |-> k, moves |-> <<>>])

\* add_move(tbl[k], new_move)
add_at(tbl, k, new_move) ==
    LET t == getitem(tbl, k)
    IN  [t EXCEPT ![index_of(t, k)].moves = add_move(@, new_move)]

add(tbl, board, new_move) == add_at(tbl, key(board), new_move)

\* The (k, move) pairs in the order merge's two loops visit them.
RECURSIVE items(_)
items(tbl) ==
    IF Len(tbl) = 0 THEN <<>>
    ELSE [i \in 1..Len(tbl[1].moves) |-> [key |-> tbl[1].key, move |-> tbl[1].moves[i]]]
            \o items(Tail(tbl))

\* merge's loops from the n-th pair on, into the global table g.
RECURSIVE merge_from(_, _, _)
merge_from(g, pairs, n) ==
    IF n > Len(pairs) THEN g
    ELSE merge_from(add_at(g, pairs[n].key, pairs[n].move), pairs, n + 1)

\* merge(table): the global table after it.
merge(g, tbl) == merge_from(g, items(tbl), 1)

-----------------------------------------------------------------------------
(* The player relevance filter *)

\* read_ranked: a row (last, first) becomes the pattern
\* f'{last}$|{last}(,{first[0]})+', kept here as its two parts.
read_ranked(rows) ==
    [i \in 1..Len(rows) |->
        [last    |-> lower(strip(rows[i][1])),
         initial |-> SubSeq(lower(strip(rows[i][2])), 1, 1)]]

\* re.match(pattern, n) for a pattern whose last name and initial are plain
\* characters (letters, spaces): the whole of n is the last name, or n begins
\* with the last name, a comma and the initial.
re_match(pattern, n) ==
    \/ n = pattern.last
    \/ startswith(n, pattern.last \o "," \o pattern.initial)

format_name(name) == lower(join(",", name))

\* is_ranked's decision without the second try, on the reversed name.
resolve_given_order(a, name) ==
    \E i \in 1..Len(a.ranked) : re_match(a.ranked[i], format_name(name))

\* The decision is_ranked computes for a name the cache does not hold.
resolve(a, name) ==
    IF \E i \in 1..Len(a.ranked) : re_match(a.ranked[i], format_name(name))
    THEN TRUE
    ELSE \E i \in 1..Len(a.ranked) : re_match(a.ranked[i], format_name(reversed(name)))

\* is_ranked: the value it returns, given the cache it finds.
is_ranked(cache, a, name) ==
    IF Len(a.ranked) = 0 THEN TRUE
    ELSE IF name \in DOMAIN cache THEN cache[name]
    ELSE resolve(a, name)

\* is_ranked: the cache it leaves.
is_ranked_cache(cache, a, name) ==
    IF Len(a.ranked) = 0 \/ name \in DOMAIN cache THEN cache
    ELSE cache @@ (name :> resolve(a, name))

-----------------------------------------------------------------------------
(* Games as the PGN reader delivers them *)

WIN == "1"

LOSS == "0"

DRAW == "1/2"

\* __result: the Result header as [black's result, white's result].
result_table(header) ==
    CASE header = "1-0"     -> [black |-> LOSS, white |-> WIN]
      [] header = "0-1"     -> [black |-> WIN,  white |-> LOSS]
      [] header = "1/2-1/2" -> [black |-> DRAW, white |-> DRAW]

game_metadata(game) ==
    LET result == result_table(game.result)
    IN  [white |-> [name |-> game.white, result |-> result[WHITE]],
         black |-> [name |-> game.black, result |-> result[BLACK]],
         event |-> [name |-> game.event]]

\* on_meta: whether the game is read at all.
on_meta(cache, a, meta) ==
    IF a.no_blitz /\ contains(lower(meta.event.name), "blitz") THEN FALSE
    ELSE is_ranked(cache, a, meta.white.name)
            \/ is_ranked(is_ranked_cache(cache, a, meta.white.name), a, meta.black.name)

\* on_meta: the cache it leaves (black is looked up only when white is not ranked).
on_meta_cache(cache, a, meta) ==
    IF a.no_blitz /\ contains(lower(meta.event.name), "blitz") THEN cache
    ELSE LET c1 == is_ranked_cache(cache, a, meta.white.name)
         IN  IF is_ranked(cache, a, meta.white.name) THEN c1
             ELSE is_ranked_cache(c1, a, meta.black.name)

\* The statistics on_move attaches to a move for the mover's result.
outcome_stats(result, depth) ==
    IF result = WIN THEN MoveStats(2, 0, depth)
    ELSE IF result = LOSS THEN MoveStats(0, 2, depth)
    ELSE MoveStats(1, 0, depth)

\* on_move without the depth cutoff.
on_move_nocutoff(st, a, meta, board, move) ==
    LET depth == Len(board.move_stack)
        color == turn(board)
    IN  IF is_ranked(st.cache, a, meta[color].name)
        THEN LET new_move == with_stats(move, outcome_stats(meta[color].result, depth))
             IN  [table |-> add(st.table, board, new_move),
                  cache |-> is_ranked_cache(st.cache, a, meta[color].name),
                  log   |-> Append(st.log, [key |-> key(board), move |-> new_move])]
        ELSE [st EXCEPT !.cache = is_ranked_cache(st.cache, a, meta[color].name)]

\* on_move: st is the game's scratch table, the cache and the log of what was
\* added; the result is st after the move.
on_move(st, a, meta, board, move) ==
    LET depth == Len(board.move_stack)
    IN  IF depth < a.depth
        THEN LET color == turn(board)
             IN  IF is_ranked(st.cache, a, meta[color].name)
                 THEN LET new_move ==
                              with_stats(move, outcome_stats(meta[color].result, depth))
                      IN  [table |-> add(st.table, board, new_move),
                           cache |-> is_ranked_cache(st.cache, a, meta[color].name),
                           log   |-> Append(st.log, [key |-> key(board), move |-> new_move])]
                 ELSE [st EXCEPT !.cache = is_ranked_cache(st.cache, a, meta[color].name)]
        ELSE st

\* The reader replays the game's moves, calling on_move before each is pushed.
RECURSIVE replay(_, _, _, _, _, _)
replay(st, a, meta, board, moves, n) ==
    IF n > Len(moves) THEN st
    ELSE replay(on_move(st, a, meta, board, moves[n]), a, meta,
                push(board, moves[n]), moves, n + 1)

-----------------------------------------------------------------------------
(* The book encoder *)

RECURSIVE floor_log2(_)
floor_log2(n) == IF n < 2 THEN 0 ELSE 1 + floor_log2(n \div 2)

\* int(math.log(n, 2)) if n else 0
log2(n) == IF n # 0 THEN floor_log2(n) ELSE 0

\* stats(move): the weight and the learn value of a record.
stats(move) == <<Max(1, log2(move.stats.win)), log2(move.stats.loss)>>

\* _sort_key: (win / max(1, loss), win), the quotient kept as a fraction.
_sort_key(move) ==
    [num |-> move.stats.win, den |-> Max(1, move.stats.loss), win |-> move.stats.win]

\* x > y for two sort keys, compared as Python compares tuples.
sort_key_gt(x, y) ==
    \/ x.num * y.den > y.num * x.den
    \/ x.num * y.den = y.num * x.den /\ x.win > y.win

\* The list left as it is, unsorted.
sort_reverse_skipped(moves) == moves

\* sorted(moves, key=_sort_key)[::-1]: ascending and stable, then turned round,
\* which turns round the moves with equal keys as well.
RECURSIVE sort_ascending(_)
sort_ascending(moves) ==
    IF Len(moves) <= 1 THEN moves
    ELSE LET n      == Len(moves)
             front  == sort_ascending(SubSeq(moves, 1, n - 1))
             m      == moves[n]
             before == Cardinality({i \in 1..(n - 1) :
                           ~sort_key_gt(_sort_key(front[i]), _sort_key(m))})
         IN  SubSeq(front, 1, before) \o <<m>> \o SubSeq(front, before + 1, n - 1)

sort_turned_round(moves) == reversed(sort_ascending(moves))

\* moves.sort(key=_sort_key, reverse=True): descending and stable.
RECURSIVE sort_reverse(_)
sort_reverse(moves) ==
    IF Len(moves) <= 1 THEN moves
    ELSE LET n      == Len(moves)
             front  == sort_reverse(SubSeq(moves, 1, n - 1))
             m      == moves[n]
             before == Cardinality({i \in 1..(n - 1) :
                           ~sort_key_gt(_sort_key(m), _sort_key(front[i]))})
         IN  SubSeq(front, 1, before) \o <<m>> \o SubSeq(front, before + 1, n - 1)

\* The keys in the table's own order, unsorted.
keys_unsorted(tbl) == [i \in 1..Len(tbl) |-> tbl[i].key]

\* sorted(__moves_table.keys())
RECURSIVE sorted_keys(_)
sorted_keys(tbl) ==
    IF Len(tbl) = 0 THEN <<>>
    ELSE LET n      == Len(tbl)
             front  == sorted_keys(SubSeq(tbl, 1, n - 1))
             k      == tbl[n].key
             before == Cardinality({i \in 1..(n - 1) : ~key_less(k, front[i])})
         IN  SubSeq(front, 1, before) \o <<k>> \o SubSeq(front, before + 1, n - 1)

\* The test of line 119: wins >= max(2, losses).
qualifies(move) == move.stats.win >= Max(2, move.stats.loss)

\* What one position adds to the file: in CSV one line of (uci, weight, learn)
\* triples, in binary one record per move. moves names the moves written.
RECURSIVE csv_triples(_)
csv_triples(moves) ==
    IF Len(moves) = 0 THEN <<>>
    ELSE <<uci(moves[1]), stats(moves[1])[1], stats(moves[1])[2]>>
            \o csv_triples(Tail(moves))

writes(a, k, moves) ==
    IF is_csv_output(a)
    THEN <<[key |-> k, moves |-> moves, data |-> <<k>> \o csv_triples(moves)]>>
    ELSE [i \in 1..Len(moves) |->
            [key |-> k, moves |-> <<moves[i]>>,
             data |-> make_entry(k, moves[i], stats(moves[i])[1], stats(moves[i])[2])]]

\* One round of output_book's loop; st is the global table and the file so far.
\* The filtered list only decides whether the position is written: line 122
\* takes the table's own list again, which is sorted in place, capped and written.
output_key(st, a, k) ==
    LET i    == index_of(st.table, k)
        kept == SelectSeq(st.table[i].moves, qualifies)
    IN  IF Len(kept) = 0 THEN st
        ELSE LET moves  == sort_reverse(st.table[i].moves)
                 capped == SubSeq(moves, 1, Min(a.max_variations, Len(moves)))
             IN  [table |-> [st.table EXCEPT ![i].moves = moves],
                  out   |-> st.out \o writes(a, k, capped)]

RECURSIVE output_keys(_, _, _, _)
output_keys(st, a, ks, n) ==
    IF n > Len(ks) THEN st
    ELSE output_keys(output_key(st, a, ks[n]), a, ks, n + 1)

\* output_book: the global table it leaves (its lists sorted in place) and the
\* file it writes.
output_book(tbl, a) ==
    output_keys([table |-> tbl, out |-> <<>>], a, sorted_keys(tbl), 1)

-----------------------------------------------------------------------------
(* The inputs of the model *)

\* The command lines tried: a depth cutoff, a cap, the rows of the ranked
\* players file (none: every player is ranked), --no-blitz, the output's
\* extension.
ArgsChoices ==
    { [depth |-> 2, max_variations |-> 1, ranked |-> <<>>,
       no_blitz |-> FALSE, ext |-> ".csv"],
      [depth |-> 5, max_variations |-> 2, ranked |-> read_ranked(<<<<"Kasparov", "G">>>>),
       no_blitz |-> TRUE, ext |-> ".bin"] }

Players == { <<"Kasparov", "Garry">>, <<"Smith", "John">> }

Events == { "World Blitz", "Candidates" }

Headers == { "1-0", "0-1", "1/2-1/2" }

e2e4 == Move(12, 28, None)
e7e5 == Move(52, 36, None)
g1f3 == Move(6, 21, None)
g8f6 == Move(62, 45, None)
f3g1 == Move(21, 6, None)
f6g8 == Move(45, 62, None)

\* The openings the corpus plays. In two of them the knights go out and come
\* back, so that the starting position comes again at ply 4; one of the two
\* goes on to ply 6.
ShortLines == { <<e2e4>>, <<e2e4, e7e5>> }

KnightLines ==
    { <<g1f3, g8f6, f3g1, f6g8, e2e4, e7e5, g1f3>>, <<g1f3, g8f6, f3g1, f6g8, g1f3>> }

\* A game of the corpus: its headers, its moves, and whether the reader finds
\* it malformed. The corpus holds well-formed tournament games (the short
\* openings in every pairing and result, the long ones won by White), some
\* blitz games and some malformed games.
TournamentGames ==
    [white : Players, black : Players, event : {"Candidates"}, result : Headers,
     moves : ShortLines, errors : {FALSE}]
    \cup
    [white : {<<"Kasparov", "Garry">>}, black : {<<"Smith", "John">>},
     event : {"Candidates"}, result : {"1-0"},
     moves : KnightLines, errors : {FALSE}]

BlitzGames ==
    [white : {<<"Kasparov", "Garry">>}, black : Players, event : {"World Blitz"},
     result : {"1-0"}, moves : {<<e2e4>>}, errors : {FALSE}]

MalformedGames ==
    [white : Players, black : {<<"Kasparov", "Garry">>}, event : {"Candidates"},
     result : {"0-1"}, moves : {<<e2e4, e7e5>>}, errors : {TRUE}]

Games == TournamentGames \cup BlitzGames \cup MalformedGames

-----------------------------------------------------------------------------
(* What a game is due to contribute, read off the game itself *)

Accepts(a, name) == Len(a.ranked) = 0 \/ resolve(a, name)

Mover(game, ply) == IF ply % 2 = 0 THEN game.white ELSE game.black

MoverWins(game, ply) ==
    \/ ply % 2 = 0 /\ game.result = "1-0"
    \/ ply % 2 = 1 /\ game.result = "0-1"

MoverLoses(game, ply) ==
    \/ ply % 2 = 0 /\ game.result = "0-1"
    \/ ply % 2 = 1 /\ game.result = "1-0"

\* The board after the first n moves of a game.
RECURSIVE BoardAfter(_, _)
BoardAfter(moves, n) ==
    IF n = 0 THEN starting_board ELSE push(BoardAfter(moves, n - 1), moves[n])

\* One observation per move played below the cutoff by an accepted player, in
\* the order of play: the position's key and the move, with the statistics of
\* the mover's result (a win 2/0, a loss 0/2, anything else 1/0) and the ply.
ExpectedObs(a, game) ==
    LET plies  == [i \in 1..Len(game.moves) |-> i - 1]
        Due(q) == q < a.depth /\ Accepts(a, Mover(game, q))
        due    == SelectSeq(plies, Due)
    IN  [i \in 1..Len(due) |->
            [key  |-> key(BoardAfter(game.moves, due[i])),
             move |-> with_stats(game.moves[due[i] + 1],
                          MoveStats(IF MoverWins(game, due[i]) THEN 2
                                    ELSE IF MoverLoses(game, due[i]) THEN 0 ELSE 1,
                                    IF MoverLoses(game, due[i]) THEN 2 ELSE 0,
                                    due[i]))]]

-----------------------------------------------------------------------------
(* The run of make_opening_book *)

Idle == [step |-> "idle"]

Init ==
    /\ args \in ArgsChoices
    /\ pc = "crawl"
    /\ __moves_table = <<>>
    /\ table = <<>>
    /\ cursor = 0
    /\ _ranked = <<>>
    /\ out = <<>>
    /\ merged = EmptyBag
    /\ current = <<>>
    /\ games = EmptyBag
    /\ count = 0
    /\ codec = Idle
    /\ packer = Idle
    /\ ranker = Idle
    /\ rerun = <<>>

\* The reader skips the game: on_meta refuses it.
SkipGame(game) ==
    LET meta == game_metadata(game)
    IN  /\ pc = "crawl"
        /\ BagCardinality(games) < MaxGames
        /\ ~on_meta(_ranked, args, meta)
        /\ _ranked' = on_meta_cache(_ranked, args, meta)
        /\ UNCHANGED <<args, pc, __moves_table, table, cursor, out, merged, current,
                       games, count, codec, packer, ranker, rerun>>

\* on_meta accepts the game and its moves are replayed into a scratch table,
\* but the reader finds the game malformed and does not yield it.
DropGame(game) ==
    LET meta == game_metadata(game)
        st   == replay([table |-> <<>>, cache |-> on_meta_cache(_ranked, args, meta),
                        log |-> <<>>], args, meta, starting_board, game.moves, 1)
    IN  /\ pc = "crawl"
        /\ BagCardinality(games) < MaxGames
        /\ on_meta(_ranked, args, meta)
        /\ game.errors
        /\ _ranked' = st.cache
        /\ UNCHANGED <<args, pc, __moves_table, table, cursor, out, merged, current,
                       games, count, codec, packer, ranker, rerun>>

\* The reader yields the game; read_pgn_file merges its scratch table when the
\* game has at least depth // 2 moves.
ReadGame(game) ==
    LET meta == game_metadata(game)
        st   == replay([table |-> <<>>, cache |-> on_meta_cache(_ranked, args, meta),
                        log |-> <<>>], args, meta, starting_board, game.moves, 1)
    IN  /\ pc = "crawl"
        /\ BagCardinality(games) < MaxGames
        /\ on_meta(_ranked, args, meta)
        /\ ~game.errors
        /\ _ranked' = st.cache
        /\ games' = games (+) SetToBag({[obs |-> ExpectedObs(args, game),
                                         nmoves |-> Len(game.moves)]})
        /\ IF Len(game.moves) >= args.depth \div 2
           THEN /\ count' = count + 1
                /\ table' = st.table
                /\ current' = st.log
                /\ cursor' = 0
                /\ pc' = "merge"
           ELSE UNCHANGED <<count, table, current, cursor, pc>>
        /\ UNCHANGED <<args, __moves_table, out, merged, codec, packer, ranker, rerun>>

\* merge: one add_move of its loops.
MergeStep ==
    /\ pc = "merge"
    /\ cursor < Len(items(table))
    /\ __moves_table' = add_at(__moves_table, items(table)[cursor + 1].key,
                               items(table)[cursor + 1].move)
    /\ cursor' = cursor + 1
    /\ UNCHANGED <<args, pc, table, _ranked, out, merged, current, games, count,
                   codec, packer, ranker, rerun>>

\* merge: the loops are over, table.clear().
MergeClear ==
    /\ pc = "merge"
    /\ cursor = Len(items(table))
    /\ table' = <<>>
    /\ cursor' = 0
    /\ merged' = merged (+) SetToBag({current})
    /\ current' = <<>>
    /\ pc' = "crawl"
    /\ UNCHANGED <<args, __moves_table, _ranked, out, games, count, codec, packer, ranker, rerun>>

\* KeyboardInterrupt: raised between any two steps of the crawl, caught by
\* make_opening_book, which returns without writing a book.
Interrupt ==
    /\ pc \in {"crawl", "merge"}
    /\ pc' = "interrupted"
    /\ UNCHANGED <<args, __moves_table, table, cursor, _ranked, out, merged, current,
                   games, count, codec, packer, ranker, rerun>>

\* The crawl is over: output_book.
OutputBook ==
    /\ pc = "crawl"
    /\ LET st == output_book(__moves_table, args)
       IN  /\ __moves_table' = st.table
           /\ out' = st.out
    /\ pc' = "done"
    /\ UNCHANGED <<args, table, cursor, _ranked, merged, current, games, count,
                   codec, packer, ranker, rerun>>

Next ==
    \/ \E game \in Games : SkipGame(game)
    \/ \E game \in Games : DropGame(game)
    \/ \E game \in Games : ReadGame(game)
    \/ MergeStep
    \/ MergeClear
    \/ Interrupt
    \/ OutputBook

Spec == Init /\ [][Next]_vars

\* output_book(args) called once more on the table the first call left.
OutputBookAgain ==
    /\ pc = "done"
    /\ LET st == output_book(__moves_table, args)
       IN  /\ __moves_table' = st.table
           /\ rerun' = st.out
    /\ pc' = "rerun"
    /\ UNCHANGED <<args, table, cursor, _ranked, out, merged, current, games, count,
                   codec, packer, ranker>>

NextRerun == Next \/ OutputBookAgain

SpecRerun == Init /\ [][NextRerun]_vars

-----------------------------------------------------------------------------
(* The codec's test bench: test_encode_move, for every move of the domain *)

BookIdle ==
    /\ args = CHOOSE a \in ArgsChoices : a.ext = ".bin"
    /\ pc = "test"
    /\ __moves_table = <<>>
    /\ table = <<>>
    /\ cursor = 0
    /\ _ranked = <<>>
    /\ out = <<>>
    /\ merged = EmptyBag
    /\ current = <<>>
    /\ games = EmptyBag
    /\ count = 0

CodecMoves == [from_square : 0..63, to_square : 0..63, promotion : Promotions]

InitCodec ==
    /\ BookIdle
    /\ codec \in [step : {"new"}, test_move : CodecMoves]
    /\ packer = Idle
    /\ ranker = Idle
    /\ rerun = <<>>

\* raw_move = encode_move(test_move)
EncodeMove ==
    /\ codec.step = "new"
    /\ codec' = [step |-> "encoded", test_move |-> codec.test_move,
                 raw_move |-> encode_move(codec.test_move)]
    /\ UNCHANGED <<bookVars, packer, ranker, rerun>>

\* move = chess.Move(from_square, to_square, promotion), decoded from raw_move
DecodeMove ==
    /\ codec.step = "encoded"
    /\ codec' = [step |-> "decoded", test_move |-> codec.test_move,
                 raw_move |-> codec.raw_move, move |-> decode_move(codec.raw_move)]
    /\ UNCHANGED <<bookVars, packer, ranker, rerun>>

NextCodec == EncodeMove \/ DecodeMove

SpecCodec == InitCodec /\ [][NextCodec]_vars

-----------------------------------------------------------------------------
(* The packer's test bench: make_entry on weights around the 16-bit limit *)

PackerWeights == {0, 1, 2, 65534, 65535, 65536, 131070}

PackerLearns == {-1, 0, 1, 65535, 65536}

InitPacker ==
    /\ BookIdle
    /\ codec = Idle
    /\ packer \in [step : {"new"}, key : {0, 65}, move : {e2e4, Move(52, 60, 5)},
                   weight : PackerWeights, learn : PackerLearns]
    /\ ranker = Idle
    /\ rerun = <<>>

\* make_entry(key, move, weight, learn)
MakeEntry ==
    /\ packer.step = "new"
    /\ packer' = [step |-> "packed", key |-> packer.key, move |-> packer.move,
                  weight |-> packer.weight, learn |-> packer.learn,
                  entry |-> make_entry(packer.key, packer.move, packer.weight,
                                       packer.learn)]
    /\ UNCHANGED <<bookVars, codec, ranker, rerun>>

NextPacker == MakeEntry

SpecPacker == InitPacker /\ [][NextPacker]_vars

-----------------------------------------------------------------------------
(* The player filter's test bench: test_ranked *)

\* The rows of the ranked players files tried, as csv.reader delivers them; the
\* empty file stands for no allow-list.
RankedRows ==
    { <<>>,
      << <<"Kasparov", " G">> >>,
      << <<"Kasparov", " Garry">>, <<"Polgar", " Judit">> >> }

\* The names is_ranked is asked about: those of test_ranked, the same in the
\* other order, and near misses.
TestNames ==
    { <<"Kasparov">>, <<"Kasparov", "G">>, <<"Kasparov", "G.">>, <<"Kasparov", "Gary">>,
      <<"Kasparov", "Garry">>, <<"Kasparov", "S">>, <<"Kasparov", "Sergey">>,
      <<"Polgar">>, <<"Polgar", "Judith">>, <<"Polgar", "Ju">>, <<"Polgar", "S">>,
      <<"Polgar", "S.">>, <<"polgar", "j.">>,
      <<"Garry", "Kasparov">>, <<"G", "Kasparov">>, <<"Sergey", "Kasparov">>,
      <<"KASPAROV", "GARRY">>, <<"Kasparova", "G">>, <<"Kasparov", "">>,
      <<"Gates", "Kasparov">>, <<"Smith", "John">> }

InitRanked ==
    /\ args \in { [depth |-> 5, max_variations |-> 2, ranked |-> read_ranked(rows),
                   no_blitz |-> TRUE, ext |-> ".bin"] : rows \in RankedRows }
    /\ pc = "test"
    /\ __moves_table = <<>>
    /\ table = <<>>
    /\ cursor = 0
    /\ _ranked = <<>>
    /\ out = <<>>
    /\ merged = EmptyBag
    /\ current = <<>>
    /\ games = EmptyBag
    /\ count = 0
    /\ codec = Idle
    /\ packer = Idle
    /\ ranker = Idle
    /\ rerun = <<>>

\* is_ranked(args, name): ranker holds the name, the value returned and whether
\* the cache already held the name.
IsRanked(name) ==
    /\ name \in DOMAIN _ranked \/ Cardinality(DOMAIN _ranked) < MaxAsked
    /\ ranker' = [step |-> "asked", name |-> name,
                  r |-> is_ranked(_ranked, args, name),
                  cached |-> name \in DOMAIN _ranked]
    /\ _ranked' = is_ranked_cache(_ranked, args, name)
    /\ UNCHANGED <<args, pc, __moves_table, table, cursor, out, merged, current,
                   games, count, codec, packer, rerun>>

NextRanked == \E name \in TestNames : IsRanked(name)

SpecRanked == InitRanked /\ [][NextRanked]_vars

-----------------------------------------------------------------------------
(* Views of the state the properties are stated on *)

\* A table as a set of (position, move) statistics, one element per list entry.
StatsMap(tbl) ==
    { [key |-> tbl[i].key, uci |-> uci(tbl[i].moves[j]),
       win |-> tbl[i].moves[j].stats.win, loss |-> tbl[i].moves[j].stats.loss,
       depth |-> tbl[i].moves[j].stats.depth] :
      <<i, j>> \in {<<i, j>> \in (1..Len(tbl)) \X (1..5) : j <= Len(tbl[i].moves)} }

\* The sums and the least depth of the observations of move u at position k
\* in a sequence of observations [key, move].
RECURSIVE SumWin(_, _, _)
SumWin(obs, k, u) ==
    IF Len(obs) = 0 THEN 0
    ELSE (IF obs[1].key = k /\ uci(obs[1].move) = u THEN obs[1].move.stats.win ELSE 0)
            + SumWin(Tail(obs), k, u)

RECURSIVE SumLoss(_, _, _)
SumLoss(obs, k, u) ==
    IF Len(obs) = 0 THEN 0
    ELSE (IF obs[1].key = k /\ uci(obs[1].move) = u THEN obs[1].move.stats.loss ELSE 0)
            + SumLoss(Tail(obs), k, u)

LeastDepth(obs, k, u) ==
    LET depths == {obs[i].move.stats.depth :
                      i \in {j \in 1..Len(obs) : obs[j].key = k /\ uci(obs[j].move) = u}}
    IN  CHOOSE d \in depths : \A e \in depths : d <= e

\* What a sequence of observations adds up to, per position and move.
Aggregate(obs) ==
    { [key |-> o.key, uci |-> uci(o.move),
       win |-> SumWin(obs, o.key, uci(o.move)),
       loss |-> SumLoss(obs, o.key, uci(o.move)),
       depth |-> LeastDepth(obs, o.key, uci(o.move))] : o \in Range(obs) }

\* A bag as a sequence, each element as often as the bag holds it.
RECURSIVE BagSeq(_)
BagSeq(B) ==
    IF BagToSet(B) = {} THEN <<>>
    ELSE LET x == CHOOSE y \in BagToSet(B) : TRUE
         IN  <<x>> \o BagSeq(B (-) SetToBag({x}))

RECURSIVE Concat(_)
Concat(seqs) == IF Len(seqs) = 0 THEN <<>> ELSE seqs[1] \o Concat(Tail(seqs))

\* Every order of a sequence.
Orders(seq) ==
    { [i \in 1..Len(seq) |-> seq[p[i]]] :
      p \in {q \in [1..Len(seq) -> 1..Len(seq)] :
                \A i, j \in 1..Len(seq) : q[i] = q[j] => i = j} }

\* The scratch table a game's observations build, add by add.
RECURSIVE ScratchOf(_)
ScratchOf(log) ==
    IF Len(log) = 0 THEN <<>>
    ELSE add_at(ScratchOf(SubSeq(log, 1, Len(log) - 1)),
                log[Len(log)].key, log[Len(log)].move)

\* The global table after merging the games' scratch tables one after another.
RECURSIVE MergeAll(_)
MergeAll(logs) ==
    IF Len(logs) = 0 THEN <<>>
    ELSE merge(MergeAll(SubSeq(logs, 1, Len(logs) - 1)), ScratchOf(logs[Len(logs)]))

\* The same tables merged from the right: the later tables into one another
\* first, the result into the first.
RECURSIVE MergeGrouped(_)
MergeGrouped(logs) ==
    IF Len(logs) = 0 THEN <<>>
    ELSE merge(ScratchOf(logs[1]), MergeGrouped(Tail(logs)))

\* The observations the global table holds so far: those of the games merged,
\* and the moves of the scratch table that merge has handed over.
Handed == SubSeq(items(table), 1, cursor)

MergedLogs == BagSeq(merged)

NoDuplicates(tbl) ==
    \A i \in 1..Len(tbl) : \A a, b \in 1..Len(tbl[i].moves) :
        uci(tbl[i].moves[a]) = uci(tbl[i].moves[b]) => a = b

-----------------------------------------------------------------------------
(* C2: de-duplication *)

\* C2: in the scratch table and in the global table every position's list holds
\* each move text at most once, and the entry of a move carries the sums of the
\* win and loss increments and the least depth of all observations of that move
\* at that position.
C2_Dedup ==
    /\ NoDuplicates(table)
    /\ NoDuplicates(__moves_table)
    /\ StatsMap(table) = Aggregate(current)
    /\ StatsMap(__moves_table) = Aggregate(Concat(MergedLogs) \o Handed)

\* One WIN and one LOSS observation of e2e4 at the starting position have become
\* one entry with win = 2, loss = 2; and the same move seen at plies 0 and 4 of
\* one game is one entry of the scratch table.
C2_Witness ==
    /\ pc = "crawl"
    /\ \E i \in 1..Len(__moves_table) :
          /\ __moves_table[i].key = key(starting_board)
          /\ \E j \in 1..Len(__moves_table[i].moves) :
                /\ uci(__moves_table[i].moves[j]) = "e2e4"
                /\ __moves_table[i].moves[j].stats = MoveStats(2, 2, 0)
    /\ \E log \in BagToSet(merged) :
          \E a, b \in 1..Len(log) :
              /\ log[a].key = log[b].key
              /\ uci(log[a].move) = uci(log[b].move)
              /\ log[a].move.stats.depth < log[b].move.stats.depth

-----------------------------------------------------------------------------
(* C3: the order of merges *)

\* C3: between merges the global table holds, per position and move, the same
\* statistics as merging the same scratch tables in any other order, one after
\* another or grouped from the right; and a finished merge has left its scratch
\* table empty.
C3_MergeOrder ==
    /\ pc = "crawl" => table = <<>>
    /\ pc \in {"crawl", "done"} =>
          \A logs \in Orders(MergedLogs) :
              /\ StatsMap(MergeAll(logs)) = StatsMap(__moves_table)
              /\ StatsMap(MergeGrouped(logs)) = StatsMap(__moves_table)

\* Three different scratch tables have been merged, all three with an
\* observation of one move at one position, seen at different depths.
C3_Witness ==
    /\ pc = "crawl"
    /\ table = <<>>
    /\ Cardinality(BagToSet(merged)) = 3
    /\ \E o \in Range(Concat(MergedLogs)) :
          /\ \A log \in BagToSet(merged) :
                \E x \in Range(log) : x.key = o.key /\ uci(x.move) = uci(o.move)
          /\ \E x \in Range(Concat(MergedLogs)) :
                /\ x.key = o.key
                /\ uci(x.move) = uci(o.move)
                /\ x.move.stats.depth # o.move.stats.depth

-----------------------------------------------------------------------------
(* C4: whole games only *)

\* C4: between games, at the end and when the crawl is interrupted, the global
\* table holds the observations of whole games only: those of the games merged,
\* with all or none of the observations of the game whose merge was under way.
C4_WholeGames ==
    pc \in {"crawl", "interrupted", "done"} =>
        \/ StatsMap(__moves_table) = Aggregate(Concat(MergedLogs))
        \/ StatsMap(__moves_table) = Aggregate(Concat(MergedLogs) \o current)

-----------------------------------------------------------------------------
(* C10: what an accepted game contributes *)

YieldedGames == BagSeq(games)

IsLong(g) == g.nmoves >= args.depth \div 2

ObsOf(gs) == Concat([i \in 1..Len(gs) |-> gs[i].obs])

\* C10 as stated: between games the global table holds exactly the due
\* observations of every game the reader has yielded, however long the game.
C10_EveryAcceptedGame ==
    pc \in {"crawl", "done"} =>
        StatsMap(__moves_table) = Aggregate(ObsOf(YieldedGames))

\* C10 as amended: between games the global table holds exactly the due
\* observations (every move below the depth cutoff by a side is_ranked accepts,
\* no other move) of the yielded games of at least depth // 2 moves; a shorter
\* game contributes nothing.
C10_LongGames ==
    pc \in {"crawl", "done"} =>
        StatsMap(__moves_table) = Aggregate(ObsOf(SelectSeq(YieldedGames, IsLong)))

\* A game of seven moves with only White ranked has been merged: its moves at
\* plies 0, 2 and 4 are in the table, the move at ply 6 is beyond the cutoff;
\* and a game shorter than depth // 2 has been yielded.
C10_Witness ==
    /\ pc = "crawl"
    /\ \E g \in BagToSet(games) :
          /\ g.nmoves = 7
          /\ Len(g.obs) = 3
          /\ \A o \in Range(g.obs) :
                \E e \in StatsMap(__moves_table) : e.key = o.key /\ e.uci = uci(o.move)
    /\ \E g \in BagToSet(games) : ~IsLong(g) /\ Len(g.obs) > 0

-----------------------------------------------------------------------------
(* The book as written *)

\* The file's content, write by write.
Written(o) == [i \in 1..Len(o) |-> o[i].data]

\* The moves written for position k, in the order written.
MovesWritten(o, k) ==
    Concat([i \in 1..Len(o) |-> IF o[i].key = k THEN o[i].moves ELSE <<>>])

\* Two moves of one position with the same ranking key.
HasTies(tbl) ==
    \E i \in 1..Len(tbl) : \E a, b \in 1..Len(tbl[i].moves) :
        /\ a # b
        /\ ~sort_key_gt(_sort_key(tbl[i].moves[a]), _sort_key(tbl[i].moves[b]))
        /\ ~sort_key_gt(_sort_key(tbl[i].moves[b]), _sort_key(tbl[i].moves[a]))

-----------------------------------------------------------------------------
(* C1: the threshold *)

\* C1: every move written to the book has win >= max(2, loss).
C1_Threshold ==
    \A i \in 1..Len(out) : \A j \in 1..Len(out[i].moves) : qualifies(out[i].moves[j])

-----------------------------------------------------------------------------
(* C5: the order of ingestion *)

\* C5 as stated: the book written is the book output_book writes after the
\* same games were merged in any other order.
C5_AnyOrder ==
    pc = "done" =>
        \A logs \in Orders(MergedLogs) :
            Written(output_book(MergeAll(logs), args).out) = Written(out)

\* C5 as amended: when no two moves of one position have the same ranking key
\* (win / max(1, loss), win), the book written is the book output_book writes
\* after the same games were merged in any other order.
C5_AnyOrderNoTies ==
    (pc = "done" /\ ~HasTies(__moves_table)) =>
        \A logs \in Orders(MergedLogs) :
            Written(output_book(MergeAll(logs), args).out) = Written(out)

\* A book written from three different games with no ties, in which a position
\* of two moves in first-seen order other than the ranking was sorted, and
\* capped to fewer moves than it holds.
C5_Witness ==
    /\ pc = "done"
    /\ ~HasTies(__moves_table)
    /\ Cardinality(BagToSet(merged)) = 3
    /\ \E i \in 1..Len(__moves_table) :
          /\ Len(__moves_table[i].moves) > args.max_variations
          /\ MovesWritten(out, __moves_table[i].key) # <<>>
          /\ \E logs \in Orders(MergedLogs) :
                LET t == MergeAll(logs)
                IN  t[index_of(t, __moves_table[i].key)].moves # __moves_table[i].moves

-----------------------------------------------------------------------------
(* C6: the cap *)

\* C6: for every position the book holds exactly min(max_variations, q) moves,
\* q the number of the position's qualifying moves, and they are qualifying
\* moves that no qualifying move left out outranks.
C6_Cap ==
    pc = "done" =>
        \A i \in 1..Len(__moves_table) :
            LET all     == __moves_table[i].moves
                kept    == SelectSeq(all, qualifies)
                written == MovesWritten(out, __moves_table[i].key)
            IN  /\ Len(written) = Min(args.max_variations, Len(kept))
                /\ \A w \in Range(written) : qualifies(w)
                /\ \A w \in Range(written) : \A m \in Range(kept) \ Range(written) :
                      ~sort_key_gt(_sort_key(m), _sort_key(w))

-----------------------------------------------------------------------------
(* C9: the order of the keys *)

\* C9: the keys of the book's writes never decrease from one write to a later
\* one, and the writes of one position are next to one another.
C9_SortedKeys ==
    /\ \A i, j \in 1..Len(out) : i < j => ~key_less(out[j].key, out[i].key)
    /\ \A i, j, k \in 1..Len(out) :
          (i < j /\ j < k /\ out[i].key = out[k].key) => out[j].key = out[i].key

\* A book of several positions, written from a table whose keys were first
\* seen in another order than the sorted one, with two records for one position.
C9_Witness ==
    /\ pc = "done"
    /\ \E i, j \in 1..Len(__moves_table) :
          /\ i < j
          /\ key_less(__moves_table[j].key, __moves_table[i].key)
          /\ MovesWritten(out, __moves_table[i].key) # <<>>
          /\ MovesWritten(out, __moves_table[j].key) # <<>>
    /\ \E i, j \in 1..Len(out) : i # j /\ out[i].key = out[j].key

-----------------------------------------------------------------------------
(* C7: the packed weight *)

\* C7: every record make_entry packs, for a weight that passes its check, has a
\* weight field greater than 0.
C7_WeightPositive ==
    (packer.step = "packed" /\ packer.entry # AssertionError) => packer.entry.weight > 0

-----------------------------------------------------------------------------
(* C8: the codec's round trip *)

\* C8: decoding encode_move's result gives the move encoded, for every origin
\* and destination square and every promotion of the domain.
C8_RoundTrip ==
    codec.step = "decoded" => codec.move = codec.test_move

\* e7e8q and e2e4 have been encoded and decoded.
C8_Witness ==
    /\ codec.step = "decoded"
    /\ codec.test_move = Move(52, 60, 5)
    /\ codec.raw_move = 60 + 52 * 64 + 4 * 4096
    /\ codec.move = codec.test_move

-----------------------------------------------------------------------------
(* C11: the player filter *)

\* Whether the name parts o, in this order, are a row's last name alone, or a
\* row's last name and a first name beginning with the row's initial.
Listed(rows, o) ==
    \E i \in 1..Len(rows) :
        /\ lower(o[1]) = lower(strip(rows[i][1]))
        /\ \/ Len(o) = 1
           \/ /\ Len(o) = 2
              /\ Len(o[2]) > 0
              /\ lower(SubSeq(o[2], 1, 1)) = lower(SubSeq(strip(rows[i][2]), 1, 1))

\* The rows the allow-list of the run was read from.
RowsOf(a) == CHOOSE rows \in RankedRows : read_ranked(rows) = a.ranked

C11_Accepted ==
    { <<"Kasparov">>, <<"Kasparov", "G">>, <<"Kasparov", "G.">>, <<"Kasparov", "Gary">>,
      <<"Kasparov", "Garry">> }

C11_Rejected == { <<"Kasparov", "S">>, <<"Kasparov", "Sergey">> }

\* C11: with an allow-list, is_ranked returns TRUE for a name exactly when the
\* name, as given or reversed, is a listed last name alone or a listed last name
\* with a first name beginning with the entry's initial; it accepts and rejects
\* the names given for the entry (Kasparov, G); a call answered from the cache
\* returns the same; with no allow-list it returns TRUE for every name.
C11_Filter ==
    /\ ranker.step = "asked" =>
          /\ Len(args.ranked) = 0 => ranker.r = TRUE
          /\ Len(args.ranked) > 0 =>
                /\ ranker.r = (Listed(RowsOf(args), ranker.name)
                                  \/ Listed(RowsOf(args), reversed(ranker.name)))
                /\ ranker.name \in C11_Accepted => ranker.r = TRUE
                /\ ranker.name \in C11_Rejected => ranker.r = FALSE
                /\ ranker.name \in DOMAIN _ranked /\ _ranked[ranker.name] = ranker.r
    /\ \A name \in DOMAIN _ranked :
          _ranked[name] = (Listed(RowsOf(args), name)
                              \/ Listed(RowsOf(args), reversed(name)))

\* With the list (Kasparov, Garry), (Polgar, Judit): (Garry, Kasparov), accepted
\* only in the reversed order, has been asked about again and answered from the
\* cache, which also holds an accepted and a rejected name of the claim.
C11_Witness ==
    /\ Len(args.ranked) = 2
    /\ ranker.step = "asked"
    /\ ranker.name = <<"Garry", "Kasparov">>
    /\ ranker.cached
    /\ ranker.r = TRUE
    /\ <<"Kasparov", "Gary">> \in DOMAIN _ranked /\ _ranked[<<"Kasparov", "Gary">>] = TRUE
    /\ <<"Kasparov", "Sergey">> \in DOMAIN _ranked
    /\ _ranked[<<"Kasparov", "Sergey">>] = FALSE

\* With no allow-list a name no list would hold has been accepted.
C11_WitnessNoList ==
    /\ Len(args.ranked) = 0
    /\ ranker.step = "asked"
    /\ ranker.name = <<"Smith", "John">>
    /\ ranker.r = TRUE

-----------------------------------------------------------------------------
(* C12: output_book run twice *)

\* C12: a second run of output_book, with no add or merge since the first and
\* the same arguments, writes what the first run wrote: the same records in the
\* same order.
C12_Idempotent ==
    pc = "rerun" => Written(rerun) = Written(out)

\* A second run has written a book, two moves for one position, from a table
\* that the first run's sorting changed: it is none of the tables that merging
\* the games in some order leaves.
C12_Witness ==
    /\ pc = "rerun"
    /\ \A logs \in Orders(MergedLogs) : MergeAll(logs) # __moves_table
    /\ \E i \in 1..Len(__moves_table) :
          Len(MovesWritten(rerun, __moves_table[i].key)) >= 2

\* A second run has written two moves of one position that have the same
\* ranking key.
C12_WitnessTies ==
    /\ pc = "rerun"
    /\ \E i \in 1..Len(__moves_table) :
          LET written == MovesWritten(rerun, __moves_table[i].key)
          IN  \E a, b \in 1..Len(written) :
                 /\ a # b
                 /\ ~sort_key_gt(_sort_key(written[a]), _sort_key(written[b]))
                 /\ ~sort_key_gt(_sort_key(written[b]), _sort_key(written[a]))

=============================================================================
